---- MODULE Spec2Model ----
(***************************************************************************)
(* AsciiBird (src/driver.c): a text-mode Flappy Bird.  The model follows   *)
(* main()'s loop between the points where the program waits for a key:     *)
(* the non-blocking getch() of a playing tick and the blocking getch() of  *)
(* the failure screen.                                                     *)
(*                                                                         *)
(* Numbers.  The C code mixes int, float and double.  Every real value it  *)
(* computes is modelled exactly as a fraction with a fixed denominator,    *)
(* every rounding to float as round-to-nearest-even on 24 significant bits *)
(* (FlRound) and every float->int conversion as C's truncation toward zero *)
(* (Trunc).                                                                *)
(***************************************************************************)
EXTENDS Integers, Naturals, Sequences, FiniteSets, TLC

VARIABLES pc, ch, f, p1, p2, score, sdigs, best_score, bdigs, delay, win,
          screen, ret

vars == <<pc, ch, f, p1, p2, score, sdigs, best_score, bdigs, delay, win,
          screen, ret>>

(*------------------------------ bounds ----------------------------------*)

\* The values rand() returns in the game: the least and the greatest.
RandVals == {0, 2147483647}

\* A round is followed until the score reaches MaxScore.
MaxScore == 1

\* The score bookkeeping alone is followed until the score reaches
\* MaxDigScore.
MaxDigScore == 1000

\* The pipes alone are followed until the score reaches MaxPipeScore.
MaxPipeScore == 4

\* In the rounds that end in a free fall, KEY_UP arrives only in the first
\* MaxBoostTicks ticks of a round; the fall is looked at for MaxFall ticks.
MaxBoostTicks == 50
MaxFall == 48

(*------------------------- program constants ----------------------------*)

NUM_ROWS == 24
NUM_COLS == 80
PIPE_RADIUS == 3
OPENING_WIDTH == 7
FLAPPY_COL == 10

\* V0 = -0.5 and GRAV = 0.05, as fractions.
V0_NUM == -1
V0_DEN == 2
GRAV_NUM == 1
GRAV_DEN == 20

\* Common denominator of h0 + V0 * t + 0.5 * GRAV * t * t.
POS_DEN == 2 * V0_DEN * GRAV_DEN

\* A float has FLT_MANT significant bits' worth of values per binade: 2^24.
FLT_MANT == 16777216

\* opening_height, a float in [0.25, 0.75], is kept as a numerator over
\* OH_DEN = 2^25 (the spacing of the floats in [0.25, 0.5)).
OH_DEN == 2 * FLT_MANT

(*------------------------------ helpers ---------------------------------*)

\* C conversion of the real n / d (d > 0) to int: truncation toward zero.
Trunc(n, d) == IF n >= 0 THEN n \div d ELSE -((-n) \div d)

\* C integer division a / b (b > 0), which truncates toward zero.
CDiv(a, b) == Trunc(a, b)

\* The spacing of the floats around n >= 0, in n's unit, when the floats
\* below FLT_MANT units are the integers.
RECURSIVE Ulp(_)
Ulp(n) == IF n < FLT_MANT THEN 1 ELSE 2 * Ulp(n \div 2)

\* n / u rounded to the nearest integer, ties to the even one.
RoundQ(n, u) ==
    LET q == n \div u
        r == n % u
    IN  IF 2 * r < u THEN q
        ELSE IF 2 * r > u THEN q + 1
        ELSE IF q % 2 = 0 THEN q ELSE q + 1

\* Conversion of n >= 0 to float: n rounded to 24 significant bits.
FlRound(n) == RoundQ(n, Ulp(n)) * Ulp(n)

\* The opening drawn without the 0.25 offset: rand() / INT_MAX * 0.5.
rand_opening_no_offset(r) ==
    IF r < 64 * FLT_MANT
    THEN RoundQ(FlRound(r), 128)
    ELSE FlRound(RoundQ(r, 128))

\* rand() / ((float) INT_MAX) * 0.5 + 0.25 stored in a float, as a numerator
\* over OH_DEN, for rand() = r.  (float) r is FlRound(r) and (float) INT_MAX
\* is 2^31; the division is exact, the double arithmetic is exact, and the
\* value (FlRound(r) + 2^30) / 2^32 is rounded when it is stored.  Below
\* 2^30 that is FlRound(r) / 128 rounded to an integer; from 2^30 on
\* (float) r is a multiple of 128.
rand_opening(r) ==
    IF r < 64 * FLT_MANT
    THEN FLT_MANT \div 2 + RoundQ(FlRound(r), 128)
    ELSE FlRound(RoundQ(r, 128) + FLT_MANT \div 2)

\* The arc without the gravity term.
ArcNum_no_gravity(fl) ==
    fl.h0 * POS_DEN + V0_NUM * fl.t * (POS_DEN \div V0_DEN)

\* The arc with the sign of the gravity term reversed.
ArcNum_neg_gravity(fl) ==
    fl.h0 * POS_DEN + V0_NUM * fl.t * (POS_DEN \div V0_DEN)
        - GRAV_NUM * fl.t * fl.t * (POS_DEN \div (2 * GRAV_DEN))

\* Numerator over POS_DEN of h0 + V0*t + 0.5*GRAV*t*t with GRAV = 1/20.
ArcNum(fl) ==
    fl.h0 * POS_DEN + V0_NUM * fl.t * (POS_DEN \div V0_DEN)
        + GRAV_NUM * fl.t * fl.t * (POS_DEN \div (2 * GRAV_DEN))

\* get_flappy_position converting by rounding to the nearest row.
get_flappy_position_round(fl) ==
    (2 * ArcNum(fl) + POS_DEN) \div (2 * POS_DEN)

\* get_flappy_position: the arc, converted to int by the return.
\* GRAV is the float nearest 0.05, which is 1/20 + 1/(5 * 2^28), so the
\* double the code computes is ArcNum/POS_DEN + t*t/(5 * 2^29): for t > 0
\* (and t < 8192) it lies strictly between ArcNum/POS_DEN and the next
\* multiple of 1/POS_DEN.  Truncation toward zero therefore differs from
\* Trunc(ArcNum, POS_DEN) only when ArcNum is a negative multiple of
\* POS_DEN, where the code returns one more.
get_flappy_position(fl) ==
    LET a == ArcNum(fl)
    IN  IF a < 0 /\ a % POS_DEN = 0 /\ fl.t > 0
        THEN a \div POS_DEN + 1
        ELSE Trunc(a, POS_DEN)

\* get_orow with OPENING_WIDTH / 2 as a real division (3.5).
get_orow_real_half(p, top) ==
    Trunc(FlRound(FlRound(p.opening_height * (NUM_ROWS - 1))
                    - (IF top = 1 THEN 1 ELSE -1) * OPENING_WIDTH
                        * (OH_DEN \div 2)),
          OH_DEN)

\* get_orow: opening_height * (NUM_ROWS - 1) - (top ? 1 : -1) *
\* OPENING_WIDTH / 2, where the last term is an int division; the product
\* and the difference are floats, each rounded, and the return converts to
\* int.
get_orow(p, top) ==
    Trunc(FlRound(FlRound(p.opening_height * (NUM_ROWS - 1))
                    - CDiv((IF top = 1 THEN 1 ELSE -1) * OPENING_WIDTH, 2)
                        * OH_DEN),
          OH_DEN)

\* crashed_into_pipe with a strict comparison at the top of the opening.
crashed_into_pipe_strict(fl, p) ==
    IF /\ FLAPPY_COL >= p.center - PIPE_RADIUS - 1
       /\ FLAPPY_COL <= p.center + PIPE_RADIUS + 1
    THEN IF /\ get_flappy_position(fl) > get_orow(p, 1) + 1
            /\ get_flappy_position(fl) <= get_orow(p, 0) - 1
         THEN 0
         ELSE 1
    ELSE 0

\* crashed_into_pipe: 1 if Flappy crashed into the pipe, 0 otherwise.
crashed_into_pipe(fl, p) ==
    IF /\ FLAPPY_COL >= p.center - PIPE_RADIUS - 1
       /\ FLAPPY_COL <= p.center + PIPE_RADIUS + 1
    THEN IF /\ get_flappy_position(fl) >= get_orow(p, 1) + 1
            /\ get_flappy_position(fl) <= get_orow(p, 0) - 1
         THEN 0
         ELSE 1
    ELSE 0

\* draw_flappy with strict comparisons against ceiling and floor.
draw_flappy_strict(fl, q1, q2) ==
    LET h == get_flappy_position(fl)
    IN  IF h < 0 \/ h > NUM_ROWS - 1
        THEN 1
        ELSE IF crashed_into_pipe(fl, q1) = 1 \/ crashed_into_pipe(fl, q2) = 1
             THEN 1
             ELSE 0

\* The crash tests of draw_flappy: 1 if it calls failure_screen, 0 if it
\* draws Flappy.
draw_flappy(fl, q1, q2) ==
    LET h == get_flappy_position(fl)
    IN  IF h <= 0 \/ h >= NUM_ROWS - 1
        THEN 1
        ELSE IF crashed_into_pipe(fl, q1) = 1 \/ crashed_into_pipe(fl, q2) = 1
             THEN 1
             ELSE 0

\* pipe_refresh decrementing the center only when it does not wrap.
pipe_refresh_else_dec(p, g, r) ==
    LET wrap == p.center + PIPE_RADIUS < 0
        s == IF wrap THEN g.score + 1 ELSE g.score
    IN  [p |-> IF wrap
               THEN [center |-> NUM_COLS + PIPE_RADIUS,
                     opening_height |-> rand_opening(r)]
               ELSE [p EXCEPT !.center = @ - 1],
         g |-> [score |-> s, sdigs |-> g.sdigs]]

\* pipe_refresh counting every call, not every wrap.
pipe_refresh_count_all(p, g, r) ==
    LET wrap == p.center + PIPE_RADIUS < 0
        q == IF wrap
             THEN [center |-> NUM_COLS + PIPE_RADIUS,
                   opening_height |-> rand_opening(r)]
             ELSE p
    IN  [p |-> [q EXCEPT !.center = @ - 1],
         g |-> [score |-> g.score + 1, sdigs |-> g.sdigs]]

\* pipe_refresh on pipe p with the score globals g = [score, sdigs]; r is
\* the value rand() returns if it is called.  Yields the new pipe and the
\* new globals.
pipe_refresh(p, g, r) ==
    LET wrap == p.center + PIPE_RADIUS < 0
        q == IF wrap
             THEN [center |-> NUM_COLS + PIPE_RADIUS,
                   opening_height |-> rand_opening(r)]
             ELSE p
        s == IF wrap THEN g.score + 1 ELSE g.score
        d == IF ~wrap THEN g.sdigs
             ELSE IF g.sdigs = 1 /\ s > 9 THEN g.sdigs + 1
             ELSE IF g.sdigs = 2 /\ s > 99 THEN g.sdigs + 1
             ELSE g.sdigs
    IN  [p |-> [q EXCEPT !.center = @ - 1], g |-> [score |-> s, sdigs |-> d]]

\* The key switch with a boost that leaves t running.
key_switch_keep_t(fl, key) ==
    IF key = "KEY_UP"
    THEN [h0 |-> get_flappy_position(fl), t |-> fl.t + 1]
    ELSE [fl EXCEPT !.t = @ + 1]

\* The switch on the key in main: KEY_UP boosts, anything else (no key
\* included) lets Flappy fall.  'q' is handled by PlayQuit.
key_switch(fl, key) ==
    IF key = "KEY_UP"
    THEN [h0 |-> get_flappy_position(fl), t |-> 0]
    ELSE [fl EXCEPT !.t = @ + 1]

\* failure_screen's default branch assigning best_score unconditionally.
failure_fold_assign(b) ==
    [score |-> 0, sdigs |-> 1, best_score |-> b.score, bdigs |-> b.bdigs]

\* failure_screen's default branch without the best_score update.
failure_fold_keep(b) ==
    [score |-> 0, sdigs |-> 1, best_score |-> b.best_score, bdigs |-> b.bdigs]

\* The score bookkeeping of failure_screen's default branch, on the globals
\* b = [score, sdigs, best_score, bdigs].
failure_fold(b) ==
    LET best == IF b.score > b.best_score THEN b.score ELSE b.best_score
        bd == IF b.bdigs = 1 /\ best > 9 THEN b.bdigs + 1
              ELSE IF b.bdigs = 2 /\ best > 99 THEN b.bdigs + 1
              ELSE b.bdigs
    IN  [score |-> 0, sdigs |-> 1, best_score |-> best, bdigs |-> bd]

(*------------------------------- game -----------------------------------*)

\* Entry of main: the globals as initialised; f is not yet assigned (it is
\* not read before StartRound assigns it).
Init ==
    /\ pc = "SPLASH"
    /\ ch = "none"
    /\ f = [h0 |-> 0, t |-> 0]
    /\ p1 = [center |-> 0, opening_height |-> 0]
    /\ p2 = [center |-> 0, opening_height |-> 0]
    /\ score = 0
    /\ sdigs = 1
    /\ best_score = 0
    /\ bdigs = 1
    /\ delay = -1
    /\ win = "none"
    /\ screen = "none"
    /\ ret = 0

\* main up to the loop: initscr, timeout(0), splash_screen; restart = 1.
\* screen is what the last refresh() put on the terminal.
Setup ==
    /\ pc = "SPLASH"
    /\ pc' = "START"
    /\ win' = "open"
    /\ delay' = 0
    /\ screen' = "splash"
    /\ UNCHANGED <<ch, f, p1, p2, score, sdigs, best_score, bdigs, ret>>

\* The "if (restart)" block re-initialising Flappy only: the pipes stay
\* where the previous round left them.
StartRound_keep_pipes ==
    /\ pc = "START"
    /\ f' = [h0 |-> CDiv(NUM_ROWS, 2), t |-> 0]
    /\ delay' = 0
    /\ pc' = "PLAYING"
    /\ UNCHANGED <<ch, p1, p2, score, sdigs, best_score, bdigs, win, screen, ret>>

\* The "if (restart)" block without its timeout(0).
StartRound_no_timeout ==
    /\ pc = "START"
    /\ \E r1 \in RandVals, r2 \in RandVals :
          /\ p1' = [center |-> Trunc(12 * (NUM_COLS - 1), 10),
                    opening_height |-> rand_opening(r1)]
          /\ p2' = [center |-> Trunc(175 * (NUM_COLS - 1), 100),
                    opening_height |-> rand_opening(r2)]
    /\ f' = [h0 |-> CDiv(NUM_ROWS, 2), t |-> 0]
    /\ pc' = "PLAYING"
    /\ UNCHANGED <<ch, score, sdigs, best_score, bdigs, delay, win, screen, ret>>

\* The "if (restart)" block starting the second pipe at 1.5 * (NUM_COLS - 1).
StartRound_close ==
    /\ pc = "START"
    /\ \E r1 \in RandVals, r2 \in RandVals :
          /\ p1' = [center |-> Trunc(12 * (NUM_COLS - 1), 10),
                    opening_height |-> rand_opening(r1)]
          /\ p2' = [center |-> Trunc(15 * (NUM_COLS - 1), 10),
                    opening_height |-> rand_opening(r2)]
    /\ f' = [h0 |-> CDiv(NUM_ROWS, 2), t |-> 0]
    /\ delay' = 0
    /\ pc' = "PLAYING"
    /\ UNCHANGED <<ch, score, sdigs, best_score, bdigs, win, screen, ret>>

\* The "if (restart)" block at the top of the loop.
StartRound ==
    /\ pc = "START"
    /\ \E r1 \in RandVals, r2 \in RandVals :
          /\ p1' = [center |-> Trunc(12 * (NUM_COLS - 1), 10),
                    opening_height |-> rand_opening(r1)]
          /\ p2' = [center |-> Trunc(175 * (NUM_COLS - 1), 100),
                    opening_height |-> rand_opening(r2)]
    /\ f' = [h0 |-> CDiv(NUM_ROWS, 2), t |-> 0]
    /\ delay' = 0
    /\ pc' = "PLAYING"
    /\ UNCHANGED <<ch, score, sdigs, best_score, bdigs, win, screen, ret>>

\* A loop iteration that tests for a crash against the pipes as they were
\* before pipe_refresh.
Tick_collide_before(key) ==
    /\ pc = "PLAYING"
    /\ score < MaxScore
    /\ ch' = key
    /\ \E r1 \in (IF p1.center + PIPE_RADIUS < 0 THEN RandVals ELSE {0}),
          r2 \in (IF p2.center + PIPE_RADIUS < 0 THEN RandVals ELSE {0}) :
          LET a == pipe_refresh(p1, [score |-> score, sdigs |-> sdigs], r1)
              b == pipe_refresh(p2, a.g, r2)
              f2 == key_switch(f, key)
          IN  /\ f' = f2
              /\ p1' = a.p
              /\ p2' = b.p
              /\ score' = b.g.score
              /\ sdigs' = b.g.sdigs
              /\ IF draw_flappy(f2, p1, p2) = 1
                 THEN pc' = "FAILED" /\ delay' = -1 /\ screen' = "failure"
                 ELSE pc' = "PLAYING" /\ delay' = delay /\ screen' = "frame"
    /\ UNCHANGED <<best_score, bdigs, win, ret>>

\* One loop iteration whose getch() returns key, other than 'q': the key
\* switch, pipe_refresh on both pipes, draw_flappy; on a crash
\* failure_screen (clear, message, refresh, timeout(-1)) up to its blocking
\* getch(), otherwise the score line and refresh().
Tick(key) ==
    /\ pc = "PLAYING"
    /\ score < MaxScore
    /\ ch' = key
    /\ \E r1 \in (IF p1.center + PIPE_RADIUS < 0 THEN RandVals ELSE {0}),
          r2 \in (IF p2.center + PIPE_RADIUS < 0 THEN RandVals ELSE {0}) :
          LET a == pipe_refresh(p1, [score |-> score, sdigs |-> sdigs], r1)
              b == pipe_refresh(p2, a.g, r2)
              f2 == key_switch(f, key)
          IN  /\ f' = f2
              /\ p1' = a.p
              /\ p2' = b.p
              /\ score' = b.g.score
              /\ sdigs' = b.g.sdigs
              /\ IF draw_flappy(f2, a.p, b.p) = 1
                 THEN pc' = "FAILED" /\ delay' = -1 /\ screen' = "failure"
                 ELSE pc' = "PLAYING" /\ delay' = delay /\ screen' = "frame"
    /\ UNCHANGED <<best_score, bdigs, win, ret>>

PlayBoost == Tick("KEY_UP")

PlayFall == Tick("other")

\* A quit in the loop that folds the score first.
PlayQuit_fold ==
    /\ pc = "PLAYING"
    /\ ch' = "q"
    /\ pc' = "TERMINATED"
    /\ win' = "ended"
    /\ best_score' = IF score > best_score THEN score ELSE best_score
    /\ score' = 0
    /\ UNCHANGED <<f, p1, p2, sdigs, bdigs, delay, screen, ret>>

\* getch() returns 'q' in the loop: endwin(); exit(0).
PlayQuit ==
    /\ pc = "PLAYING"
    /\ ch' = "q"
    /\ pc' = "TERMINATED"
    /\ win' = "ended"
    /\ UNCHANGED <<f, p1, p2, score, sdigs, best_score, bdigs, delay, screen, ret>>

\* failure_screen's 'q' branch exiting without endwin().
FailQuit_no_endwin ==
    /\ pc = "FAILED"
    /\ pc' = "TERMINATED"
    /\ UNCHANGED <<ch, f, p1, p2, score, sdigs, best_score, bdigs, delay, win,
                   screen, ret>>

\* failure_screen, getch() returns 'q': endwin(); exit(0).
FailQuit ==
    /\ pc = "FAILED"
    /\ pc' = "TERMINATED"
    /\ win' = "ended"
    /\ UNCHANGED <<ch, f, p1, p2, score, sdigs, best_score, bdigs, delay, screen,
                   ret>>

\* failure_screen, getch() returns another key: the default branch, then
\* main sets restart = 1 and continues.
FailRestart ==
    /\ pc = "FAILED"
    /\ LET n == failure_fold([score |-> score, sdigs |-> sdigs,
                              best_score |-> best_score, bdigs |-> bdigs])
       IN  /\ score' = n.score
           /\ sdigs' = n.sdigs
           /\ best_score' = n.best_score
           /\ bdigs' = n.bdigs
    /\ pc' = "START"
    /\ UNCHANGED <<ch, f, p1, p2, delay, win, screen, ret>>

Next ==
    \/ Setup
    \/ StartRound
    \/ PlayBoost
    \/ PlayFall
    \/ PlayQuit
    \/ FailQuit
    \/ FailRestart

Spec == Init /\ [][Next]_vars

(*------------------- the functions on their own ------------------------*)

\* Bounds of the arguments the functions are applied to.
FnMargin == 2
FnMaxT == 24

\* The values of rand() the openings are drawn with: the least, the
\* greatest, those giving the fractions 0.375, 0.5 and 0.625, and two for
\* which get_orow's float sum rounds up to a whole row (233422008 and
\* 1540585793).
FnRandVals ==
    {0, 233422008, 536870912, 1073741824, 1540585793, 1610612736, 2147483647}

\* Arguments: a Flappy launched from a row the loop keeps (1 .. NUM_ROWS - 2)
\* up to FnMaxT ticks ago, and a pipe whose center is in or up to FnMargin
\* columns outside the band around FLAPPY_COL and whose opening fraction is
\* drawn with a value of FnRandVals.
InitFn ==
    /\ pc = "CALL"
    /\ ch = "none"
    /\ f \in [h0 : 1 .. (NUM_ROWS - 2), t : 0 .. FnMaxT]
    /\ p1 \in [center : (FLAPPY_COL - PIPE_RADIUS - 1 - FnMargin)
                          .. (FLAPPY_COL + PIPE_RADIUS + 1 + FnMargin),
               opening_height : {rand_opening(r) : r \in FnRandVals}]
    /\ p2 = [center |-> 0, opening_height |-> 0]
    /\ score = 0
    /\ sdigs = 1
    /\ best_score = 0
    /\ bdigs = 1
    /\ delay = 0
    /\ win = "open"
    /\ screen = "none"
    /\ ret = 0

\* A call of fn returning v.
Return(fn, v) ==
    /\ pc = "CALL"
    /\ pc' = fn
    /\ ret' = v
    /\ UNCHANGED <<ch, f, p1, p2, score, sdigs, best_score, bdigs, delay, win,
                   screen>>

CallPosition == Return("get_flappy_position", get_flappy_position(f))

CallOrowTop == Return("get_orow_top", get_orow(p1, 1))

CallOrowBottom == Return("get_orow_bottom", get_orow(p1, 0))

CallCrashed == Return("crashed_into_pipe", crashed_into_pipe(f, p1))

NextFn ==
    \/ CallPosition
    \/ CallOrowTop
    \/ CallOrowBottom
    \/ CallCrashed

SpecFn == InitFn /\ [][NextFn]_vars

(*-------------------------- score bookkeeping ----------------------------*)

\* The score globals followed on their own, through passes, crashes and
\* restarts of any length: Flappy's flight is left out, p1 stands for
\* whichever pipe is about to wrap.  A round has started.
InitScore ==
    /\ pc = "PLAYING"
    /\ ch = "none"
    /\ f = [h0 |-> CDiv(NUM_ROWS, 2), t |-> 0]
    /\ p1 = [center |-> 0 - PIPE_RADIUS - 1, opening_height |-> rand_opening(0)]
    /\ p2 = [center |-> 0, opening_height |-> rand_opening(0)]
    /\ score = 0
    /\ sdigs = 1
    /\ best_score = 0
    /\ bdigs = 1
    /\ delay = 0
    /\ win = "open"
    /\ screen = "splash"
    /\ ret = 0

\* A tick in which a pipe wraps: pipe_refresh's effect on score and sdigs.
ScorePassed ==
    /\ pc = "PLAYING"
    /\ score < MaxDigScore
    /\ LET a == pipe_refresh(p1, [score |-> score, sdigs |-> sdigs], 0)
       IN  score' = a.g.score /\ sdigs' = a.g.sdigs
    /\ screen' = "frame"
    /\ UNCHANGED <<pc, ch, f, p1, p2, best_score, bdigs, delay, win, ret>>

\* A tick in which draw_flappy finds a crash and calls failure_screen.
ScoreCrash ==
    /\ pc = "PLAYING"
    /\ pc' = "FAILED"
    /\ delay' = -1
    /\ screen' = "failure"
    /\ UNCHANGED <<ch, f, p1, p2, score, sdigs, best_score, bdigs, win, ret>>

\* failure_screen's default branch and the restart of the round.
ScoreRestart ==
    /\ pc = "FAILED"
    /\ LET b == failure_fold([score |-> score, sdigs |-> sdigs,
                              best_score |-> best_score, bdigs |-> bdigs])
       IN  /\ score' = b.score
           /\ sdigs' = b.sdigs
           /\ best_score' = b.best_score
           /\ bdigs' = b.bdigs
    /\ pc' = "PLAYING"
    /\ delay' = 0
    /\ UNCHANGED <<ch, f, p1, p2, win, screen, ret>>

NextScore == ScorePassed \/ ScoreCrash \/ ScoreRestart

SpecScore == InitScore /\ [][NextScore]_vars

(*------------------------------- pipes -----------------------------------*)

\* The pipes followed on their own through rounds of several wraps: Flappy
\* is left where StartRound puts it and a round may end in any tick.

\* A loop iteration that does not crash, as far as the pipes and the score
\* go: pipe_refresh on both pipes.
PipesTick ==
    /\ pc = "PLAYING"
    /\ score < MaxPipeScore
    /\ \E r1 \in (IF p1.center + PIPE_RADIUS < 0 THEN RandVals ELSE {0}),
          r2 \in (IF p2.center + PIPE_RADIUS < 0 THEN RandVals ELSE {0}) :
          LET a == pipe_refresh(p1, [score |-> score, sdigs |-> sdigs], r1)
              b == pipe_refresh(p2, a.g, r2)
          IN  /\ p1' = a.p
              /\ p2' = b.p
              /\ score' = b.g.score
              /\ sdigs' = b.g.sdigs
    /\ screen' = "frame"
    /\ UNCHANGED <<pc, ch, f, best_score, bdigs, delay, win, ret>>

\* A loop iteration that crashes: pipe_refresh on both pipes, then
\* failure_screen up to its getch().
PipesCrash ==
    /\ pc = "PLAYING"
    /\ \E r1 \in (IF p1.center + PIPE_RADIUS < 0 THEN RandVals ELSE {0}),
          r2 \in (IF p2.center + PIPE_RADIUS < 0 THEN RandVals ELSE {0}) :
          LET a == pipe_refresh(p1, [score |-> score, sdigs |-> sdigs], r1)
              b == pipe_refresh(p2, a.g, r2)
          IN  /\ p1' = a.p
              /\ p2' = b.p
              /\ score' = b.g.score
              /\ sdigs' = b.g.sdigs
    /\ pc' = "FAILED"
    /\ delay' = -1
    /\ screen' = "failure"
    /\ UNCHANGED <<ch, f, best_score, bdigs, win, ret>>

NextPipes == Setup \/ StartRound \/ PipesTick \/ PipesCrash \/ FailRestart

SpecPipes == Init /\ [][NextPipes]_vars

(*------------------------------ free fall --------------------------------*)

\* Rounds in which the boosts stop and no 'q' arrives.  The loop has no
\* blocking call while playing (getch() under timeout(0), usleep), so its
\* next iteration always comes: weak fairness of the iteration that finds
\* no key.  The failure screen's getch() blocks: no fairness for the
\* restart.

\* An iteration whose getch() returns KEY_UP, in the first MaxBoostTicks
\* ticks of the round.
FallBoost ==
    /\ p1.center > Trunc(12 * (NUM_COLS - 1), 10) - MaxBoostTicks
    /\ Tick("KEY_UP")

NextFall == Setup \/ StartRound \/ FallBoost \/ PlayFall \/ FailRestart

SpecFall ==
    /\ Init /\ [][NextFall]_vars
    /\ WF_vars(Setup) /\ WF_vars(StartRound) /\ WF_vars(PlayFall)

(*------------------------------ claims ----------------------------------*)

\* 1 if pipe_refresh wraps pipe p (a "passed" event), 0 otherwise.
Passed(p) == IF p.center + PIPE_RADIUS < 0 THEN 1 ELSE 0

\* Flappy's column is in the horizontal band of pipe p.
InBand(p) ==
    FLAPPY_COL \in (p.center - PIPE_RADIUS - 1) .. (p.center + PIPE_RADIUS + 1)

Max(a, b) == IF a >= b THEN a ELSE b

\* The move of one pipe from p to q in a tick, as C1 describes it.
WrapOrSlide(p, q) ==
    /\ p.center + PIPE_RADIUS < 0 =>
          /\ p.center = 0 - PIPE_RADIUS - 1
          /\ q.center = NUM_COLS + PIPE_RADIUS - 1
    /\ p.center + PIPE_RADIUS >= 0 =>
          /\ q.center = p.center - 1
          /\ q.opening_height = p.opening_height

\* C1: in every tick (a step from PLAYING that is not a quit) each pipe's
\* center goes down by 1, except that a pipe with center + PIPE_RADIUS < 0
\* (center = -PIPE_RADIUS - 1) ends at NUM_COLS + PIPE_RADIUS - 1; the score
\* goes up (a "passed" event) if and only if a pipe wraps, by one per
\* wrapping pipe.
C1_ObstacleWrap ==
    [][(pc = "PLAYING" /\ pc' # "TERMINATED") =>
          /\ WrapOrSlide(p1, p1')
          /\ WrapOrSlide(p2, p2')
          /\ (score' > score) = (Passed(p1) + Passed(p2) > 0)
          /\ score' - score <= Passed(p1) + Passed(p2)]_vars

\* C1 witness: the first pipe has just wrapped and credited the score.
C1_Witness ==
    /\ pc \in {"PLAYING", "FAILED"}
    /\ p1.center = NUM_COLS + PIPE_RADIUS - 1
    /\ score = 1

\* C2: while PLAYING the score changes only in a tick, and by exactly the
\* number of pipes that wrap in it; a tick without a wrap and a quit leave
\* it unchanged.
C2_ScoreByPassed ==
    [][pc = "PLAYING" =>
          score' = IF pc' = "TERMINATED" THEN score
                   ELSE score + Passed(p1) + Passed(p2)]_vars

\* C2 witness: play goes on with one pipe passed.
C2_Witness ==
    /\ pc = "PLAYING"
    /\ score = 1
    /\ ch \in {"KEY_UP", "other"}

\* C3: best_score never decreases, and score decreases only in the restart
\* step out of FAILED, which sets it to 0.
C3_ScoreMonotonic ==
    [][/\ best_score' >= best_score
       /\ score' < score => (pc = "FAILED" /\ pc' = "START" /\ score' = 0)]_vars

\* C3 witness: a later round has crashed with a score below the best.
C3_Witness ==
    /\ pc = "FAILED"
    /\ best_score = 1
    /\ score = 0

\* C4 as stated: the step from PLAYING to FAILED sets best_score to the
\* maximum of best_score and the round's final score, and score to 0.
C4_Original ==
    [][(pc = "PLAYING" /\ pc' = "FAILED") =>
          /\ best_score' = Max(best_score, score + Passed(p1) + Passed(p2))
          /\ score' = 0]_vars

\* C4 amended: the step from PLAYING to FAILED leaves best_score alone and
\* keeps the round's final score; the restart step out of FAILED sets
\* best_score to the maximum of best_score and score, and score to 0; a quit
\* out of FAILED changes neither.
C4_FoldOnRestart ==
    [][/\ (pc = "PLAYING" /\ pc' = "FAILED") =>
             /\ best_score' = best_score
             /\ score' = score + Passed(p1) + Passed(p2)
       /\ (pc = "FAILED" /\ pc' = "START") =>
             /\ best_score' = Max(best_score, score)
             /\ score' = 0
       /\ (pc = "FAILED" /\ pc' = "TERMINATED") =>
             /\ best_score' = best_score
             /\ score' = score]_vars

\* C4 witness: a restart has folded a round's score of 1 into best_score.
C4_Witness ==
    /\ pc = "START"
    /\ best_score = 1
    /\ score = 0

\* C5: a step from PLAYING in which the key is 'q' ends in TERMINATED and
\* changes neither Flappy, nor the pipes, nor the scores and their digit
\* counts.
C5_QuitWhilePlaying ==
    [][(pc = "PLAYING" /\ ch' = "q") =>
          /\ pc' = "TERMINATED"
          /\ UNCHANGED <<f, p1, p2, score, sdigs, best_score, bdigs>>]_vars

\* C5 witness: the game was quit in the loop with a score not yet folded.
C5_Witness ==
    /\ pc = "TERMINATED"
    /\ ch = "q"
    /\ delay = 0
    /\ score > best_score

\* C6: a tick after which Flappy's position is <= 0 or >= NUM_ROWS - 1 ends
\* in FAILED, and whenever the loop waits for the next key the position is
\* in 1 .. NUM_ROWS - 2.
C6_BoundsCheck ==
    /\ [](pc = "PLAYING" => get_flappy_position(f) \in 1 .. (NUM_ROWS - 2))
    /\ [][(/\ pc = "PLAYING"
           /\ pc' # "TERMINATED"
           /\ get_flappy_position(f') \notin 1 .. (NUM_ROWS - 2))
          => pc' = "FAILED"]_vars

\* C6 witness: Flappy hit the floor or the ceiling clear of both pipes.
C6_Witness ==
    /\ pc = "FAILED"
    /\ get_flappy_position(f) \notin 1 .. (NUM_ROWS - 2)
    /\ ~InBand(p1)
    /\ ~InBand(p2)

\* C7: crashed_into_pipe returns 1 exactly if Flappy's column is in the
\* pipe's band and the position is outside get_orow(p, 1) + 1 ..
\* get_orow(p, 0) - 1; in band it returns 0 at get_orow(p, 1) + 1 and 1 at
\* get_orow(p, 1); out of band it returns 0.
C7_CollisionRule ==
    pc = "crashed_into_pipe" =>
        LET h == get_flappy_position(f)
            top == get_orow(p1, 1)
            bottom == get_orow(p1, 0)
        IN  /\ (ret = 1) = (InBand(p1) /\ h \notin (top + 1) .. (bottom - 1))
            /\ ret \in {0, 1}
            /\ (InBand(p1) /\ h = top + 1) => ret = 0
            /\ (InBand(p1) /\ h = top) => ret = 1
            /\ ~InBand(p1) => ret = 0

\* C7 witness: in band, one row below the top of the opening, no crash.
C7_Witness ==
    /\ pc = "crashed_into_pipe"
    /\ InBand(p1)
    /\ get_flappy_position(f) = get_orow(p1, 1) + 1
    /\ ret = 0

\* The opening fraction of pipe p is 0.5.
HalfOpen(p) == 2 * p.opening_height = OH_DEN

\* C8 as stated: with opening fraction 0.5, in band, row 12 does not crash
\* and row 10 crashes.
C8_Original ==
    (pc = "crashed_into_pipe" /\ HalfOpen(p1) /\ InBand(p1)) =>
        /\ get_flappy_position(f) = 12 => ret = 0
        /\ get_flappy_position(f) = 10 => ret = 1

\* C8 amended: with opening fraction 0.5 get_orow returns 8 for the top and
\* 14 for the bottom, so in band the rows 9 .. 13 (12 and 10 among them) do
\* not crash and every other row does.
C8_ScenarioA ==
    HalfOpen(p1) =>
        /\ pc = "get_orow_top" => ret = 8
        /\ pc = "get_orow_bottom" => ret = 14
        /\ (pc = "crashed_into_pipe" /\ InBand(p1)) =>
              (ret = 0) = (get_flappy_position(f) \in 9 .. 13)

\* C8 witness: opening fraction 0.5, in band at row 10, no crash.
C8_Witness ==
    /\ pc = "crashed_into_pipe"
    /\ HalfOpen(p1)
    /\ InBand(p1)
    /\ get_flappy_position(f) = 10
    /\ ret = 0

\* C9: a tick whose key is KEY_UP sets h0 to the position before the tick
\* and t to 0, so the position is the same after it; a tick with another
\* key leaves h0 and adds 1 to t.
C9_Boost ==
    [][/\ (pc = "PLAYING" /\ ch' = "KEY_UP") =>
             /\ f'.h0 = get_flappy_position(f)
             /\ f'.t = 0
             /\ get_flappy_position(f') = get_flappy_position(f)
       /\ (pc = "PLAYING" /\ ch' = "other") =>
             /\ f'.h0 = f.h0
             /\ f'.t = f.t + 1]_vars

\* C9 witness: a boost taken in mid-arc has moved the launch height.
C9_Witness ==
    /\ pc = "PLAYING"
    /\ ch = "KEY_UP"
    /\ f.t = 0
    /\ f.h0 # CDiv(NUM_ROWS, 2)

\* C10 as stated: the position is exactly h0 + V0*t + 0.5*GRAV*t*t (10.125
\* for h0 = 12, t = 5).
C10_Original ==
    pc = "get_flappy_position" => ret * POS_DEN = ArcNum(f)

\* C10 amended: the position is h0 + V0*t + 0.5*GRAV*t*t, with GRAV the
\* float nearest 0.05 (just above it), truncated toward zero to an int: it
\* is within one row of the arc on the side of zero, and 10 for h0 = 12,
\* t = 5.
C10_TruncatedArc ==
    pc = "get_flappy_position" =>
        LET a == ArcNum(f)
        IN  /\ a >= 0 => (ret * POS_DEN <= a /\ a < (ret + 1) * POS_DEN)
            /\ (a < 0 /\ f.t = 0) => ret * POS_DEN = a
            /\ (a < 0 /\ f.t > 0) =>
                  (a < ret * POS_DEN /\ ret * POS_DEN <= a + POS_DEN)
            /\ (f.h0 = 12 /\ f.t = 5) => ret = 10

\* C10 witness: five ticks after spawn the position is row 10.
C10_Witness ==
    /\ pc = "get_flappy_position"
    /\ f = [h0 |-> 12, t |-> 5]
    /\ ret = 10

\* GRAV * t + V0 > 0 for Flappy fl: t / 20 - 1 / 2 > 0, that is t > 10 (the
\* float product GRAV * 10 rounds to 0.5).
Descending(fl) == GRAV_NUM * fl.t * V0_DEN + V0_NUM * GRAV_DEN > 0

\* C11 as stated: once GRAV * t + V0 > 0 the position one tick later is
\* strictly greater.
C11_Original ==
    (pc = "get_flappy_position" /\ Descending(f)) =>
        get_flappy_position([f EXCEPT !.t = @ + 1]) > ret

\* C11 amended: once GRAV * t + V0 > 0 the position one tick later is never
\* smaller (it is an int, and consecutive ticks can give the same row),
\* while the arc before the conversion to int is strictly greater.
C11_NonDecreasing ==
    (pc = "get_flappy_position" /\ Descending(f)) =>
        /\ get_flappy_position([f EXCEPT !.t = @ + 1]) >= ret
        /\ ArcNum([f EXCEPT !.t = @ + 1]) > ArcNum(f)

\* C11 witness: ticks 11 and 12 after the key press give the same row.
C11_Witness ==
    /\ pc = "get_flappy_position"
    /\ f.t = 11
    /\ get_flappy_position([f EXCEPT !.t = @ + 1]) = ret

\* The values p.opening_height can be given by a draw of the random source.
FreshOpening(p) == \E r \in RandVals : p.opening_height = rand_opening(r)

\* C12: from FAILED the next state is TERMINATED (quit) or the restart block
\* with current = 0 and best the larger of the two scores; the restart block
\* leads to PLAYING with Flappy at the spawn (h0 = NUM_ROWS / 2 = 12, t = 0),
\* the pipes at centers 94 and 138 as at the first start, freshly drawn
\* openings, current = 0 and best unchanged.
C12_Restart ==
    [][ /\ pc = "FAILED" =>
              /\ pc' \in {"TERMINATED", "START"}
              /\ pc' = "TERMINATED" => UNCHANGED <<score, best_score>>
              /\ pc' = "START" =>
                    /\ score' = 0
                    /\ best_score' = Max(score, best_score)
        /\ pc = "START" =>
              /\ pc' = "PLAYING"
              /\ f' = [h0 |-> 12, t |-> 0]
              /\ p1'.center = 94 /\ p2'.center = 138
              /\ FreshOpening(p1') /\ FreshOpening(p2')
              /\ score' = 0
              /\ best_score' = best_score ]_vars

\* C12 witness: a round started after a crash with a score of 1: the failure
\* screen is still the last thing shown, Flappy and the pipes are at their
\* start values, current is 0 and best is 1.
C12_Witness ==
    /\ pc = "PLAYING"
    /\ screen = "failure"
    /\ best_score = 1
    /\ score = 0
    /\ f = [h0 |-> 12, t |-> 0]
    /\ p1.center = 94 /\ p2.center = 138

\* C13 as stated: every opening fraction assigned to a pipe lies in
\* [0.25, 0.75).
C13_Original ==
    pc \in {"PLAYING", "FAILED"} =>
        \A p \in {p1, p2} :
            OH_DEN <= 4 * p.opening_height /\ 4 * p.opening_height < 3 * OH_DEN

\* C13 amended: every opening fraction assigned to a pipe, at a (re)start
\* and at a wrap, lies in the closed interval [0.25, 0.75]; the upper end is
\* taken when rand() returns INT_MAX.
C13_OpeningRange ==
    pc \in {"PLAYING", "FAILED"} =>
        \A p \in {p1, p2} :
            OH_DEN <= 4 * p.opening_height /\ 4 * p.opening_height <= 3 * OH_DEN

\* C13 witness: pipe 1 has just wrapped (center NUM_COLS + PIPE_RADIUS - 1)
\* and drew the opening 0.75.
C13_Witness ==
    /\ pc = "PLAYING"
    /\ p1.center = NUM_COLS + PIPE_RADIUS - 1
    /\ 4 * p1.opening_height = 3 * OH_DEN

\* C14: the process has exited exactly when the terminal has been released;
\* endwin() is called once, on an open terminal, in the step that exits
\* (from PLAYING or from FAILED) and without drawing; nothing happens after
\* it.
C14_ReleaseOnExit ==
    /\ [](pc = "TERMINATED" <=> win = "ended")
    /\ [][ /\ win # "ended"
           /\ win' = "ended" =>
                 /\ win = "open"
                 /\ pc \in {"PLAYING", "FAILED"}
                 /\ pc' = "TERMINATED"
                 /\ screen' = screen ]_vars
    /\ [][pc # "TERMINATED"]_vars

\* C14 witness: quit on the failure screen (input is blocking, the failure
\* message is shown); the terminal is released.
C14_Witness ==
    /\ pc = "TERMINATED"
    /\ win = "ended"
    /\ delay = -1
    /\ screen = "failure"

\* Flappy fl is out of bounds or inside the wall of pipe q1 or q2.
Crashed(fl, q1, q2) ==
    \/ get_flappy_position(fl) <= 0
    \/ get_flappy_position(fl) >= NUM_ROWS - 1
    \/ crashed_into_pipe(fl, q1) = 1
    \/ crashed_into_pipe(fl, q2) = 1

\* C15: in every tick that is not a quit the key is applied to Flappy
\* (KEY_UP relaunches from the current row, anything else advances t), both
\* pipes are advanced and each wrap is credited to the score, and the crash
\* test is made on the new Flappy and the new pipes: the tick ends in FAILED
\* with the failure screen shown if it finds a crash, and stays in PLAYING
\* with one game frame shown otherwise.
C15_TickOrder ==
    [][ (pc = "PLAYING" /\ pc' # "TERMINATED") =>
            /\ ch' \in {"KEY_UP", "other"}
            /\ ch' = "KEY_UP" => f' = [h0 |-> get_flappy_position(f), t |-> 0]
            /\ ch' = "other" => f' = [f EXCEPT !.t = @ + 1]
            /\ WrapOrSlide(p1, p1') /\ WrapOrSlide(p2, p2')
            /\ score' = score + Passed(p1) + Passed(p2)
            /\ pc' = (IF Crashed(f', p1', p2') THEN "FAILED" ELSE "PLAYING")
            /\ screen' = (IF Crashed(f', p1', p2') THEN "failure" ELSE "frame")
      ]_vars

\* C15 witness: a tick that moved pipe 1's band onto Flappy's column (its
\* left edge was one column to the right before the tick) crashed into its
\* wall:
\* the state is FAILED and the failure screen, not a frame, is shown.
C15_Witness ==
    /\ pc = "FAILED"
    /\ screen = "failure"
    /\ p1.center - PIPE_RADIUS - 1 = FLAPPY_COL
    /\ crashed_into_pipe(f, p1) = 1
    /\ 0 < get_flappy_position(f) /\ get_flappy_position(f) < NUM_ROWS - 1

RECURSIVE Digits(_)
\* The number of decimal digits of n >= 0.
Digits(n) == IF n < 10 THEN 1 ELSE 1 + Digits(n \div 10)

\* C16 as stated: sdigs is the number of decimal digits of score and bdigs
\* the number of decimal digits of best_score, in every state.
C16_DigitCounts ==
    /\ sdigs = Digits(score)
    /\ bdigs = Digits(best_score)

\* C17: whenever the loop is about to poll in PLAYING the input is
\* non-blocking (timeout(0)), and a poll that finds no key advances t by
\* one; whenever failure_screen is about to poll the input is blocking
\* (timeout(-1)).  The restart block restores timeout(0) before the new
\* round's first poll.
C17_InputMode ==
    /\ [](pc = "PLAYING" => delay = 0)
    /\ [](pc = "FAILED" => delay = -1)
    /\ [][(pc = "PLAYING" /\ ch' = "other") => f'.t = f.t + 1]_vars
    /\ [][(pc = "START" /\ pc' = "PLAYING") => delay' = 0]_vars

\* C17 witness: a new round after a crash, before its first poll: the
\* failure screen's blocking mode has been replaced by timeout(0).
C17_Witness ==
    /\ pc = "PLAYING"
    /\ screen = "failure"
    /\ f.t = 0
    /\ delay = 0

Abs(n) == IF n < 0 THEN 0 - n ELSE n

\* C18: once a round has started the two pipe centers differ by at least
\* 43 columns, so the pipes are never both about to wrap and Flappy's
\* column is in the band of at most one of them.  (Before the first round
\* starts the two pipes are zero-initialised globals, not yet placed.)
C18_PhaseOffset ==
    pc \in {"PLAYING", "FAILED"} =>
        /\ Abs(p1.center - p2.center) >= 43
        /\ ~(Passed(p1) = 1 /\ Passed(p2) = 1)
        /\ ~(InBand(p1) /\ InBand(p2))

\* C18 witness: in a later round (a best score is recorded) both pipes have
\* wrapped, pipe 1 twice, and pipe 1 has just re-entered at column
\* NUM_COLS + PIPE_RADIUS - 1 with pipe 2 exactly 43 columns to its left.
C18_Witness ==
    /\ pc = "PLAYING"
    /\ best_score > 0
    /\ score = 3
    /\ p1.center = NUM_COLS + PIPE_RADIUS - 1
    /\ p1.center - p2.center = 43

====
